---- MODULE Spec2Model ----
(***************************************************************************)
(* Archetype-based entity/component store of kvantuma (src/src/ecs).       *)
(*                                                                         *)
(*   Spec       the World: spawn, spawn_erased and the teardown of the    *)
(*              World.                                                     *)
(*   QuerySpec  the World: spawn_erased, query_erased, the typed queries   *)
(*              (&A) and (&A, &B), and the end of a query's borrow.        *)
(*   ColSpec    one Column on its own: Column::new with a small capacity,  *)
(*              push, push_erased and Drop, so that growth is reached.     *)
(*   RegSpec    the component registry: threads calling component_id.      *)
(*   MaskSpec   ArchetypeMask on its own: from_ids on lists of identities  *)
(*              and contains on the masks it built.                        *)
(*   TwinSpec   two Worlds side by side: each bundle is given typed to one *)
(*              of them and as erased records to the other.                *)
(*   CapSpec    one component type after the other is registered and       *)
(*              spawned into a fresh World, up to MAX_COMPONENTS types.    *)
(*                                                                         *)
(* A column buffer is modelled by its initialised prefix: buf holds the    *)
(* len * layout.size bytes written so far; every byte past it is           *)
(* uninitialised.  A query hands out slices (pointer and length) and reads *)
(* none of the bytes they cover.                                           *)
(***************************************************************************)
EXTENDS Integers, Sequences, FiniteSets, TLC

VARIABLES
    archetypes,   \* World.archetypes: Seq of Archetype
    next_entity,  \* World.next_entity
    alive,        \* TRUE until the World (ColSpec: the Column) is dropped
    fault,        \* "none", or the panic that ended the process
    borrowed,     \* TRUE while the results of a query borrow the World
    request,      \* the request list of the last query
    results,      \* the Vec<ErasedQueryResult> the last query returned
    placed,       \* history: per spawned entity, its bundle and where it went
    dtorLog,      \* history: every destructor invocation, in order
    column,       \* ColSpec: the Column under test
    registry,     \* RegSpec: the static REGISTRY (OnceLock<Registry>)
    threads,      \* RegSpec: per thread, its position inside component_id
    returned,     \* RegSpec history: every completed component_id call
    assigned,     \* RegSpec history: the types in the order they got an identity
    idsIn,        \* MaskSpec: the identity lists handed to from_ids
    built,        \* MaskSpec: the outcome of each from_ids call so far
    verdict,      \* MaskSpec: contains(built[i], built[j]) for every i, j
    twin,         \* TwinSpec: the second World, given each bundle the other way
    heap,         \* ColSpec: the buffers the Column allocated and released
    call          \* the typed call the World's thread is inside, between two
                  \* of its component_id calls

worldVars == <<archetypes, next_entity, alive, fault, borrowed, request, results,
               placed, dtorLog, column>>
regVars == <<registry, threads, returned, assigned>>
maskVars == <<idsIn, built, verdict>>
auxVars == <<twin, heap, call>>
vars == <<worldVars, regVars, maskVars, auxVars>>

----------------------------------------------------------------------------
(* Program constants *)

MAX_COMPONENTS == 256
BITS == 64
WORDS == MAX_COMPONENTS \div BITS
InitialCapacity == 64

(* Bounds of the exploration *)

MaxSpawns == 3        \* spawns per behaviour
MaxBundle == 2        \* components per bundle
MaxCells == 4         \* QuerySpec: component values stored in the world
MaxReq == 2           \* (identity, access) pairs per query
MaxCap == 2           \* ColSpec: the capacity handed to Column::new
MaxPush == 5          \* ColSpec: pushes on the column
MaxThreads == 2       \* RegSpec: threads that call component_id
MaxCalls == 3         \* RegSpec: calls of component_id per behaviour
MaxMaskLen == 2       \* MaskSpec: identities per list handed to from_ids

----------------------------------------------------------------------------
(* Component types.  Identity 1 is declared with component!{POD}, identity *)
(* 2 with component!{EXTERN}; 300 is an identity past the mask's capacity. *)

CompIds == {1, 2}
QueryIds == {1, 2, 300}
Vals == {0, 1}

SizeOf(id) == IF id = 1 THEN 1 ELSE 2
KindOf(id) == IF id = 2 THEN "Extern" ELSE "Pod"

\* component!{POD}: drop_fn is None; component!{EXTERN}: Some(drop_in_place)
DropFnOf(kind) == IF kind = "Extern" THEN "Some" ELSE "None"

\* A component value of type id whose bytes are all v, with the metadata its
\* Component impl reports.  The same record is an ErasedComponent (data = the
\* bytes behind the pointer).
Comp(id, v) ==
    [id |-> id, data |-> [k \in 1..SizeOf(id) |-> v], size |-> SizeOf(id),
     kind |-> KindOf(id), drop_fn |-> DropFnOf(KindOf(id))]

Components == {Comp(id, v) : id \in CompIds, v \in Vals}

\* The bundles handed to a spawn.  The store only copies component bytes, so
\* the bundle of the spawn that returns entity e carries the byte e + 1 in
\* every component: no two entities share a value.
BundleShapes(minLen) == UNION {[1..n -> CompIds] : n \in minLen..MaxBundle}
Bundle(shape, e) == [k \in 1..Len(shape) |-> Comp(shape[k], e + 1)]

\* The component types of the program: A is declared with component!{POD},
\* B with component!{EXTERN}; C is a type that is queried and never spawned.
CompTypes == {"A", "B"}
QueryTypes == {"A", "B", "C"}
SizeOfType(T) == IF T = "B" THEN 2 ELSE 1
KindOfType(T) == IF T = "B" THEN "Extern" ELSE "Pod"

\* A value of type T whose bytes are all v: what layout(), kind() and
\* drop_fn() of its Component impl report; id() asks the registry
Value(T, v) ==
    [type |-> T, data |-> [k \in 1..SizeOfType(T) |-> v], size |-> SizeOfType(T),
     kind |-> KindOfType(T), drop_fn |-> DropFnOf(KindOfType(T))]

\* The typed bundles handed to spawn: tuples of one or more values
TypeShapes(minLen) == UNION {[1..n -> CompTypes] : n \in minLen..MaxBundle}
TypedBundle(shape, e) == [k \in 1..Len(shape) |-> Value(shape[k], e + 1)]
TypesOf(bundle) == [k \in 1..Len(bundle) |-> bundle[k].type]

\* The (identity, access) pairs of a request.  The identity past the mask
\* ends the query before any access mode is looked at, so it is asked Read.
Accesses == {"Read", "Write"}
RequestItems == (CompIds \X Accesses) \cup ((QueryIds \ CompIds) \X {"Read"})
Requests == UNION {[1..n -> RequestItems] : n \in 0..MaxReq}

----------------------------------------------------------------------------
(* Vec helpers *)

RECURSIVE Insert(_, _)
Insert(s, x) ==
    IF s = <<>> THEN <<x>>
    ELSE IF x < Head(s) THEN <<x>> \o s
    ELSE <<Head(s)>> \o Insert(Tail(s), x)

RECURSIVE Sort(_)
Sort(s) == IF s = <<>> THEN <<>> ELSE Insert(Sort(Tail(s)), Head(s))

IdsOf(comps) == [k \in 1..Len(comps) |-> comps[k].id]
IdSet(ids) == {ids[k] : k \in 1..Len(ids)}

\* Iterator::position / find: the first of the indices that satisfy the
\* predicate, 0 for None
FirstIndex(hits) ==
    IF hits = {} THEN 0 ELSE CHOOSE k \in hits : \A j \in hits : k <= j

RECURSIVE Flatten(_)
Flatten(ss) == IF ss = <<>> THEN <<>> ELSE Head(ss) \o Flatten(Tail(ss))

----------------------------------------------------------------------------
(* ArchetypeMask: words[w] is the set of bit positions set in word w *)

\* from_ids panics: more than MAX_COMPONENTS ids, or words[word_index] out of range
FromIdsPanics(ids) ==
    \/ Len(ids) > MAX_COMPONENTS
    \/ \E k \in 1..Len(ids) : ids[k] \div BITS >= WORDS

\* The panic from_ids ends in, "none" when it returns a mask
FromIdsPanic(ids) ==
    IF Len(ids) > MAX_COMPONENTS THEN "Too many components in archetype"
    ELSE IF FromIdsPanics(ids) THEN "index out of bounds"
    ELSE "none"

\* Mutant: words[word_index] = 1 << bit_index, the last identity of a word
\* overwrites the bits of the earlier ones
from_ids_assign(ids) ==
    [w \in 0..(WORDS - 1) |->
        LET hits == {j \in 1..Len(ids) : ids[j] \div BITS = w} IN
        IF hits = {} THEN {}
        ELSE {ids[CHOOSE j \in hits : \A k \in hits : k <= j] % BITS}]

from_ids(ids) ==
    [w \in 0..(WORDS - 1) |->
        {ids[k] % BITS : k \in {j \in 1..Len(ids) : ids[j] \div BITS = w}}]

\* Mutant: a mask only contains the masks that differ from it
contains_strict(self, other) ==
    /\ self # other
    /\ \A w \in 0..(WORDS - 1) : (self[w] \cap other[w]) = other[w]

contains(self, other) ==
    \A w \in 0..(WORDS - 1) : (self[w] \cap other[w]) = other[w]

\* The identities a mask stands for
MaskIds(mask) == UNION {{w * BITS + b : b \in mask[w]} : w \in 0..(WORDS - 1)}

----------------------------------------------------------------------------
(* Column *)

ColumnNew(capacity, id, size, kind, drop_fn) ==
    [id |-> id, kind |-> kind, size |-> size, drop_fn |-> drop_fn,
     len |-> 0, capacity |-> capacity, buf |-> <<>>]

\* Mutant: the new buffer is not filled from the old one
Grow_noCopy(col) ==
    IF col.len >= col.capacity
    THEN [col EXCEPT !.capacity = col.capacity * 2,
                     !.buf = [k \in 1..(col.size * col.len) |-> 0]]
    ELSE col

\* Mutant: growth adds one slot, new_capacity = capacity + 1
Grow_plusOne(col) ==
    IF col.len >= col.capacity
    THEN [col EXCEPT !.capacity = col.capacity + 1,
                     !.buf = SubSeq(col.buf, 1, col.size * col.len)]
    ELSE col

\* The growth step of push / push_erased: taken when len >= capacity
Grow(col) ==
    IF col.len >= col.capacity
    THEN [col EXCEPT !.capacity = col.capacity * 2,
                     !.buf = SubSeq(col.buf, 1, col.size * col.len)]
    ELSE col

\* copy_nonoverlapping(src, ptr + offset, size) followed by len += 1
WriteSlot(col, bytes) ==
    LET offset == col.len * col.size
    IN [col EXCEPT !.buf = SubSeq(col.buf, 1, offset) \o SubSeq(bytes, 1, col.size),
                   !.len = col.len + 1]

\* Column::push(&dyn Component): the bytes of the value itself are copied
push(col, component) == WriteSlot(Grow(col), component.data)

\* Mutant: the copy of push that takes a record leaves out self.len += 1
push_erased_noLen(col, component) ==
    LET grown == IF col.len >= col.capacity
                 THEN [col EXCEPT !.capacity = col.capacity * 2,
                                  !.buf = SubSeq(col.buf, 1, col.size * col.len)]
                 ELSE col
        offset == grown.len * grown.size
    IN [grown EXCEPT !.buf = SubSeq(grown.buf, 1, offset)
                             \o SubSeq(component.data, 1, grown.size)]

\* Column::push_erased(&ErasedComponent), archetype.rs:102-131 on its own: the
\* growth when len >= capacity, then layout.size() bytes copied from
\* component.data to ptr + len * layout.size(), then len += 1
push_erased(col, component) ==
    LET grown == IF col.len >= col.capacity
                 THEN [col EXCEPT !.capacity = col.capacity * 2,
                                  !.buf = SubSeq(col.buf, 1, col.size * col.len)]
                 ELSE col
        offset == grown.len * grown.size
    IN [grown EXCEPT !.buf = SubSeq(grown.buf, 1, offset)
                             \o SubSeq(component.data, 1, grown.size),
                     !.len = grown.len + 1]

\* Mutant: the layout handed to dealloc covers the live elements only
DeallocSize_len(col) == col.size * col.len

\* Layout::from_size_align(layout.size() * self.capacity, ..) handed to dealloc
DeallocSize(col) == col.size * col.capacity

\* The allocator as the column sees it: buffer n was allocated with allocs[n]
\* bytes, frees lists every dealloc call, ptr is the buffer self.ptr points to
NoHeap == [ptr |-> 0, allocs |-> <<>>, frees |-> <<>>]

\* alloc(Layout::from_size_align(size, ..)) followed by self.ptr = the result
HeapAlloc(h, size) ==
    [h EXCEPT !.allocs = Append(h.allocs, size), !.ptr = Len(h.allocs) + 1]

\* dealloc(buf, Layout::from_size_align(size, ..))
HeapDealloc(h, buf, size) ==
    [h EXCEPT !.frees = Append(h.frees, [buf |-> buf, size |-> size])]

\* The allocator calls of the growth step: the new buffer is allocated, the
\* old one is released with the old capacity, self.ptr moves to the new one
GrowHeap(h, col) ==
    IF col.len >= col.capacity
    THEN HeapAlloc(HeapDealloc(h, h.ptr, DeallocSize(col)),
                   col.size * Grow(col).capacity)
    ELSE h

\* Mutant: the loop runs over the allocated slots, 0..capacity
ColumnDropSlots_capacity(col) ==
    IF col.drop_fn = "Some" THEN [i \in 1..col.capacity |-> i - 1] ELSE <<>>

\* impl Drop for Column: the slots handed to drop_fn, in order
ColumnDropSlots(col) ==
    IF col.drop_fn = "Some" THEN [i \in 1..col.len |-> i - 1] ELSE <<>>

----------------------------------------------------------------------------
(* Archetype *)

ArchetypeNew(mask, columns) ==
    [mask |-> mask, columns |-> columns, entities |-> <<>>]

has_components(arch, ids) == contains(arch.mask, from_ids(ids))

get_column_with_component_mut(arch, id) ==
    FirstIndex({c \in 1..Len(arch.columns) : arch.columns[c].id = id})

\* Mutant: the id goes to the front of the entity list
add_entity_front(arch, id) == [arch EXCEPT !.entities = <<id>> \o arch.entities]

add_entity(arch, id) == [arch EXCEPT !.entities = Append(arch.entities, id)]

----------------------------------------------------------------------------
(* component_id and the static REGISTRY, seen by one caller *)

\* Mutant: the counter starts at the sentinel, AtomicU32::new(0)
RegistryNew_zero ==
    [state |-> "ready", map |-> [T \in {} |-> 0], next |-> 0, lock |-> 0]

\* Registry { map: Default::default(), next: AtomicU32::new(1) }
RegistryNew ==
    [state |-> "ready", map |-> [T \in {} |-> 0], next |-> 1, lock |-> 0]

\* Mutant: the map is entered without waiting for the mutex
CanLock_always(reg) == TRUE

\* reg.map.lock() returns once no thread holds the mutex
CanLock(reg) == reg.lock = 0

\* Mutant: every entry is taken for vacant
Occupied_never(map, T) == FALSE

\* map.entry(TypeId::of::<T>()) is Entry::Occupied
Occupied(map, T) == T \in DOMAIN map

\* HashMap insert of (T, id)
MapInsert(map, T, id) ==
    [x \in DOMAIN map \cup {T} |-> IF x = T THEN id ELSE map[x]]

\* A call of component_id returns only once no initialiser is running and the
\* caller has taken the mutex; until then the caller waits inside the call
RegistryFree(reg) == reg.state # "running" /\ CanLock(reg)

\* The whole of component_id::<T>() by a caller that does not have to wait:
\* get_or_init, lock, entry, or_insert_with, the guard dropped at return
ComponentId(reg, T) ==
    LET r == IF reg.state = "uninit" THEN RegistryNew ELSE reg IN
    IF Occupied(r.map, T) THEN [registry |-> r, id |-> r.map[T]]
    ELSE [registry |-> [r EXCEPT !.map = MapInsert(r.map, T, r.next),
                                 !.next = r.next + 1],
          id |-> r.next]

\* comp.id() for each component of a bundle, in bundle order: the registry
\* afterwards, and the types that were given an identity on the way
RECURSIVE RegisterAll(_, _)
RegisterAll(reg, types) ==
    IF types = <<>> THEN reg
    ELSE RegisterAll(ComponentId(reg, Head(types)).registry, Tail(types))

RECURSIVE Fresh(_, _)
Fresh(reg, types) ==
    IF types = <<>> THEN <<>>
    ELSE (IF Occupied(reg.map, Head(types)) THEN <<>> ELSE <<Head(types)>>)
         \o Fresh(ComponentId(reg, Head(types)).registry, Tail(types))

\* The components of a typed bundle as the store sees them through
\* &dyn Component: the pointer to the value, layout(), kind(), drop_fn(), and
\* for id() what the k-th component_id call returned
Resolve(bundle, ids) ==
    [k \in 1..Len(bundle) |->
        [id |-> ids[k], data |-> bundle[k].data,
         size |-> bundle[k].size, kind |-> bundle[k].kind,
         drop_fn |-> bundle[k].drop_fn]]

----------------------------------------------------------------------------
(* World::spawn and World::spawn_erased *)

\* Mutant: the scan keeps the last archetype that matches, not the first
find_archetype_last(archs, ids) ==
    LET hits == {a \in 1..Len(archs) : has_components(archs[a], ids)}
    IN IF hits = {} THEN 0 ELSE CHOOSE a \in hits : \A b \in hits : b <= a

\* Mutant: the scan finds nothing, every spawn takes the else branch
find_archetype_never(archs, ids) == 0

\* .archetypes.iter_mut().find(|a| a.has_components(&ids)): index, 0 for None
find_archetype(archs, ids) ==
    FirstIndex({a \in 1..Len(archs) : has_components(archs[a], ids)})

\* The found branch of spawn: each component goes to the column
\* get_column_with_component_mut returns for comp.id(); a missing column is the
\* fatal expect.  slots[k] = <<column, slot>> is where the k-th component's
\* bytes were copied.
RECURSIVE PushAll(_, _)
PushAll(arch, comps) ==
    IF comps = <<>> THEN [arch |-> arch, panic |-> FALSE, slots |-> <<>>]
    ELSE LET c == get_column_with_component_mut(arch, Head(comps).id) IN
         IF c = 0 THEN [arch |-> arch, panic |-> TRUE, slots |-> <<>>]
         ELSE LET col == arch.columns[c]
                  rest == PushAll([arch EXCEPT !.columns[c] = push(col, Head(comps))],
                                  Tail(comps))
              IN [arch |-> rest.arch, panic |-> rest.panic,
                  slots |-> << <<c, col.len>> >> \o rest.slots]

\* The found branch of spawn_erased: the column is looked up by the id field
\* of the record, and the record is handed to push_erased
RECURSIVE PushAllErased(_, _)
PushAllErased(arch, records) ==
    IF records = <<>> THEN [arch |-> arch, panic |-> FALSE, slots |-> <<>>]
    ELSE LET c == get_column_with_component_mut(arch, Head(records).id) IN
         IF c = 0 THEN [arch |-> arch, panic |-> TRUE, slots |-> <<>>]
         ELSE LET col == arch.columns[c]
                  rest == PushAllErased(
                              [arch EXCEPT !.columns[c] = push_erased(col, Head(records))],
                              Tail(records))
              IN [arch |-> rest.arch, panic |-> rest.panic,
                  slots |-> << <<c, col.len>> >> \o rest.slots]

\* Mutant: the column of the last component is not kept
NewColumns_dropLast(comps) ==
    [k \in 1..(Len(comps) - 1) |->
        LET comp == comps[k] IN
        push(ColumnNew(InitialCapacity, comp.id, comp.size, comp.kind, comp.drop_fn),
             comp)]

\* The else branch of spawn: one fresh Column per component, in bundle order,
\* built from comp.id(), comp.layout(), comp.kind(), comp.drop_fn()
NewColumns(comps) ==
    [k \in 1..Len(comps) |->
        LET comp == comps[k] IN
        push(ColumnNew(InitialCapacity, comp.id, comp.size, comp.kind, comp.drop_fn),
             comp)]

\* The else branch of spawn_erased: one fresh Column per record, built from
\* the fields id, layout, kind, drop_fn of the record
NewColumnsErased(records) ==
    [k \in 1..Len(records) |->
        LET rec == records[k] IN
        push_erased(ColumnNew(InitialCapacity, rec.id, rec.size, rec.kind,
                              rec.drop_fn), rec)]

\* Mutant: the counter is left where it was
Advance_stuck(next) == next

\* self.next_entity += 1
Advance(next) == next + 1

\* Mutant: the new archetype is inserted at the front, archetypes.insert(0, ..)
ArchetypesPush_front(archs, archetype) == <<archetype>> \o archs

\* self.archetypes.push(archetype)
ArchetypesPush(archs, archetype) == Append(archs, archetype)

\* The whole of spawn (world.rs:17-64) on (archs, next), comps being the bundle
\* seen through &dyn Component: the new archetype list, the new counter, the
\* returned id, the archetype that received the row.
SpawnOutcome(archs, next, comps) ==
    LET ids == Sort(IdsOf(comps))
        found == find_archetype(archs, ids)
    IN IF FromIdsPanics(ids)
       THEN [panic |-> FromIdsPanic(ids), archetypes |-> archs, next |-> next,
             id |-> next, arch |-> 0, slots |-> <<>>]
       ELSE IF found # 0
       THEN LET r == PushAll(archs[found], comps) IN
            IF r.panic
            THEN [panic |-> "Should have found column after bitset check",
                  archetypes |-> [archs EXCEPT ![found] = r.arch], next |-> next,
                  id |-> next, arch |-> found, slots |-> r.slots]
            ELSE [panic |-> "none",
                  archetypes |-> [archs EXCEPT ![found] = add_entity(r.arch, next)],
                  next |-> Advance(next), id |-> next, arch |-> found,
                  slots |-> r.slots]
       ELSE LET mask == from_ids(ids)
                archetype == ArchetypeNew(mask, NewColumns(comps))
            IN [panic |-> "none",
                archetypes |-> ArchetypesPush(archs, add_entity(archetype, next)),
                next |-> Advance(next), id |-> next, arch |-> Len(archs) + 1,
                slots |-> [k \in 1..Len(comps) |-> <<k, 0>>]]

\* The whole of spawn_erased (world.rs:66-111) on (archs, next), translated on
\* its own: the ids are the id fields of the records, sorted; the first
\* archetype that has them receives the records, or a new archetype is built
SpawnErasedOutcome(archs, next, records) ==
    LET ids == Sort([k \in 1..Len(records) |-> records[k].id])
        found == find_archetype(archs, ids)
    IN IF FromIdsPanics(ids)
       THEN [panic |-> FromIdsPanic(ids), archetypes |-> archs, next |-> next,
             id |-> next, arch |-> 0, slots |-> <<>>]
       ELSE IF found # 0
       THEN LET r == PushAllErased(archs[found], records) IN
            IF r.panic
            THEN [panic |-> "Should have found column after bitset check",
                  archetypes |-> [archs EXCEPT ![found] = r.arch], next |-> next,
                  id |-> next, arch |-> found, slots |-> r.slots]
            ELSE [panic |-> "none",
                  archetypes |-> [archs EXCEPT ![found] = add_entity(r.arch, next)],
                  next |-> Advance(next), id |-> next, arch |-> found,
                  slots |-> r.slots]
       ELSE LET mask == from_ids(ids)
                archetype == ArchetypeNew(mask, NewColumnsErased(records))
            IN [panic |-> "none",
                archetypes |-> ArchetypesPush(archs, add_entity(archetype, next)),
                next |-> Advance(next), id |-> next, arch |-> Len(archs) + 1,
                slots |-> [k \in 1..Len(records) |-> <<k, 0>>]]

\* spawn owns its bundle and never forgets it: when spawn returns (or unwinds)
\* the bundle is dropped, which runs the drop glue of every component that has
\* one, i.e. the destructor its drop_fn names, on the value whose bytes were
\* copied to slots[k]; a component that was not copied when spawn unwinds is
\* dropped as well (a = 0, i = its position in the bundle).
BundleDrops(comps, a, slots) ==
    LET ks == {k \in 1..Len(comps) : comps[k].drop_fn = "Some"}
        Ev(k) == IF k <= Len(slots)
                 THEN [when |-> "spawn return", a |-> a, c |-> slots[k][1],
                       i |-> slots[k][2]]
                 ELSE [when |-> "spawn return", a |-> 0, c |-> 0, i |-> k - 1]
        RECURSIVE Build(_)
        Build(k) == IF k > Len(comps) THEN <<>>
                    ELSE (IF k \in ks THEN <<Ev(k)>> ELSE <<>>) \o Build(k + 1)
    IN Build(1)

\* The World's thread is inside no typed call
NoCall == [op |-> "none"]

Running == alive /\ fault = "none" /\ ~borrowed /\ call = NoCall

\* The World a typed spawn was called on
CallArchetypes == IF call.onTwin THEN twin.archetypes ELSE archetypes
CallNextEntity == IF call.onTwin THEN twin.next_entity ELSE next_entity

\* The number of component_id calls a spawn has completed when it panics, 0
\* when it does not: from_ids panics once the identities of world.rs:21 are
\* collected, the expect of the found branch after the call of world.rs:33 for
\* the first component whose column is missing
SpawnPanicAt(archs, comps) ==
    LET n == Len(comps)
        ids == Sort(IdsOf(comps))
    IN IF FromIdsPanics(ids) THEN n
       ELSE LET found == find_archetype(archs, ids) IN
            IF found = 0 THEN 0
            ELSE LET missing == {k \in 1..n :
                        get_column_with_component_mut(archs[found], comps[k].id) = 0}
                 IN IF missing = {} THEN 0 ELSE n + FirstIndex(missing)

\* World::spawn is entered and asks comp.id() for the first component: one
\* whole component_id call, which waits while the registry is not free.  The
\* mutex is released when the call returns, and taken again by the next.
SpawnBegin(bundle, onTwin) ==
    /\ Running
    /\ RegistryFree(registry)
    /\ (IF onTwin THEN twin.next_entity ELSE next_entity) < MaxSpawns
    /\ LET T == bundle[1].type
           c == ComponentId(registry, T)
       IN /\ registry' = c.registry
          /\ assigned' = assigned \o Fresh(registry, <<T>>)
          /\ call' = [op |-> "spawn", bundle |-> bundle, ids |-> <<c.id>>,
                      pc |-> 1, onTwin |-> onTwin]
    /\ UNCHANGED <<worldVars, threads, returned, maskVars, twin, heap>>

\* world.spawn(bundle)
Spawn(bundle) == SpawnBegin(bundle, FALSE)

\* The next comp.id() of the spawn in progress: the calls of world.rs:21, one
\* per component, then the calls of the branch taken (world.rs:33 or :50), one
\* per component again.  What spawn does between two calls touches the World
\* only, which the call borrows mutably.  The calls of the branch return what
\* the first calls returned: the map never changes or loses an entry.
SpawnId ==
    /\ call.op = "spawn"
    /\ call.pc < 2 * Len(call.bundle)
    /\ LET n == Len(call.bundle)
           T == call.bundle[(call.pc % n) + 1].type
           c == ComponentId(registry, T)
       IN /\ call.pc >= n =>
                call.pc # SpawnPanicAt(CallArchetypes, Resolve(call.bundle, call.ids))
          /\ RegistryFree(registry)
          /\ registry' = c.registry
          /\ assigned' = assigned \o Fresh(registry, <<T>>)
          /\ call' = [call EXCEPT !.pc = call.pc + 1,
                                  !.ids = IF call.pc < n THEN Append(call.ids, c.id)
                                          ELSE call.ids]
    /\ UNCHANGED <<worldVars, threads, returned, maskVars, twin, heap>>

\* spawn returns, or unwinds from the panic it ran into: the World is as
\* SpawnOutcome leaves it, and the bundle is dropped
SpawnReturn ==
    /\ call.op = "spawn"
    /\ Len(call.ids) = Len(call.bundle)
    /\ LET comps == Resolve(call.bundle, call.ids)
           o == SpawnOutcome(CallArchetypes, CallNextEntity, comps)
       IN
       /\ \/ call.pc = 2 * Len(comps)
          \/ call.pc = SpawnPanicAt(CallArchetypes, comps)
       /\ fault' = o.panic
       /\ dtorLog' = dtorLog \o BundleDrops(comps, o.arch, o.slots)
       /\ IF call.onTwin
          THEN /\ twin' = [archetypes |-> o.archetypes, next_entity |-> o.next,
                           returned |-> IF o.panic = "none"
                                        THEN Append(twin.returned, o.id)
                                        ELSE twin.returned,
                           last |-> comps]
               /\ UNCHANGED <<archetypes, next_entity, placed>>
          ELSE /\ archetypes' = o.archetypes
               /\ next_entity' = o.next
               /\ placed' = IF o.panic = "none"
                            THEN Append(placed, [bundle |-> comps, arch |-> o.arch,
                                                 slots |-> o.slots, entity |-> o.id])
                            ELSE placed
               /\ UNCHANGED twin
    /\ call' = NoCall
    /\ UNCHANGED <<regVars, maskVars, heap, alive, borrowed, request, results, column>>

SpawnErased(comps) ==
    /\ Running
    /\ next_entity < MaxSpawns
    /\ LET o == SpawnErasedOutcome(archetypes, next_entity, comps) IN
       /\ archetypes' = o.archetypes
       /\ next_entity' = o.next
       /\ fault' = o.panic
       /\ placed' = IF o.panic = "none"
                    THEN Append(placed, [bundle |-> comps, arch |-> o.arch,
                                         slots |-> o.slots, entity |-> o.id])
                    ELSE placed
    /\ UNCHANGED <<regVars, maskVars, auxVars, alive, borrowed, request, results, dtorLog, column>>

----------------------------------------------------------------------------
(* World::query_erased and the typed queries *)

\* components.iter().map(|(id, _)| *id).collect()
QueryIdsOf(req) == [k \in 1..Len(req) |-> req[k][1]]

\* column_indices: .position(|col| col.meta.id == *id).unwrap(), 0 where it is None
ColumnIndices(arch, req) ==
    [k \in 1..Len(req) |-> get_column_with_component_mut(arch, req[k][1])]

\* Mutant: the arms of the match on the access mode are exchanged
View_swapped(archs, a, c, i, access) ==
    [access |-> IF access = "Read" THEN "Write" ELSE "Read", a |-> a, c |-> c,
     off |-> i * archs[a].columns[c].size, size |-> archs[a].columns[c].size]

\* One ComponentQuery: Read(slice) or Write(slice); the slice is the pointer
\* ptr + i * size into column c of archetype a with the length size.  from_raw_parts
\* builds it without reading the bytes it covers.
View(archs, a, c, i, access) ==
    [access |-> access, a |-> a, c |-> c, off |-> i * archs[a].columns[c].size,
     size |-> archs[a].columns[c].size]

\* Mutant: the loop over the rows starts at 1, for i in 1..len
ArchetypeResults_fromOne(archs, a, req) ==
    LET arch == archs[a]
        idx == ColumnIndices(arch, req)
    IN [r \in 1..(Len(arch.entities) - 1) |->
           [entity |-> arch.entities[r + 1],
            components |-> [k \in 1..Len(req) |->
                               View(archs, a, idx[k], r, req[k][2])]]]

\* for i in 0..len: one ErasedQueryResult per row of the entity list
ArchetypeResults(archs, a, req) ==
    LET arch == archs[a]
        idx == ColumnIndices(arch, req)
    IN [r \in 1..Len(arch.entities) |->
           [entity |-> arch.entities[r],
            components |-> [k \in 1..Len(req) |->
                               View(archs, a, idx[k], r - 1, req[k][2])]]]

\* Mutant: the loop pushes into the columns it visits, which grow when full
Visit_grow(arch) ==
    [arch EXCEPT !.columns =
        [c \in 1..Len(arch.columns) |->
            [arch.columns[c] EXCEPT !.capacity = 2 * arch.columns[c].capacity]]]

\* for archetype in &mut self.archetypes: the body reads the mask, the entity
\* list, the columns and their pointers, and assigns to none of them
Visit(arch) == arch

\* The whole of query_erased: the panic it ends in, or the results it returns,
\* and the archetypes as the loop leaves them
QueryOutcome(archs, req) ==
    LET ids == QueryIdsOf(req)
        Matches(a) == has_components(archs[a], ids)
        visited == [a \in 1..Len(archs) |-> Visit(archs[a])]
    IN IF archs # <<>> /\ FromIdsPanics(ids)
       THEN [panic |-> FromIdsPanic(ids), results |-> <<>>,
             archetypes |-> archs]
       ELSE IF \E a \in 1..Len(archs) :
                  Matches(a) /\ \E k \in 1..Len(req) : ColumnIndices(archs[a], req)[k] = 0
       THEN [panic |-> "called Option::unwrap() on a None value", results |-> <<>>,
             archetypes |-> archs]
       ELSE [panic |-> "none", archetypes |-> visited,
             results |-> Flatten([a \in 1..Len(archs) |->
                                     IF Matches(a)
                                     THEN ArchetypeResults(archs, a, req)
                                     ELSE <<>>])]

QueryErased(req) ==
    /\ Running
    /\ LET o == QueryOutcome(archetypes, req) IN
       /\ results' = o.results
       /\ fault' = o.panic
       /\ archetypes' = o.archetypes
    /\ request' = req
    /\ borrowed' = TRUE
    /\ UNCHANGED <<regVars, maskVars, auxVars, next_entity, alive, placed, dtorLog, column>>

\* let ComponentQuery::Read(x) = &res.components[k] else { unreachable!() };
\* &*(x.as_ptr() as *const T): the k-th reference of a row starts where the
\* slice starts and covers size_of::<T>() bytes, T the k-th type of the query
TypedOutcome(o, types) ==
    IF o.panic # "none" THEN o
    ELSE IF \E r \in 1..Len(o.results) :
               \E k \in 1..Len(o.results[r].components) :
                   o.results[r].components[k].access # "Read"
    THEN [panic |-> "unreachable", results |-> <<>>, archetypes |-> o.archetypes]
    ELSE [o EXCEPT !.results =
             [r \in 1..Len(o.results) |->
                 [o.results[r] EXCEPT !.components =
                     [k \in 1..Len(types) |->
                         [o.results[r].components[k] EXCEPT
                             !.size = SizeOfType(types[k])]]]]]

\* A typed query is entered and makes its first component_id call, which
\* waits while the registry is not free
QueryBegin(types) ==
    /\ Running
    /\ RegistryFree(registry)
    /\ LET c == ComponentId(registry, types[1]) IN
       /\ registry' = c.registry
       /\ assigned' = assigned \o Fresh(registry, <<types[1]>>)
       /\ call' = [op |-> "query", types |-> types, ids |-> <<c.id>>]
    /\ UNCHANGED <<worldVars, threads, returned, maskVars, twin, heap>>

\* impl Query for &A: A::component_id()
QueryRef(A) == QueryBegin(<<A>>)

\* impl Query for (&A, &B): A::component_id()
QueryRefPair(A, B) == QueryBegin(<<A, B>>)

\* impl Query for (&A, &B): B::component_id(), a call of its own
QueryId ==
    /\ call.op = "query"
    /\ Len(call.ids) < Len(call.types)
    /\ RegistryFree(registry)
    /\ LET T == call.types[Len(call.ids) + 1]
           c == ComponentId(registry, T)
       IN /\ registry' = c.registry
          /\ assigned' = assigned \o Fresh(registry, <<T>>)
          /\ call' = [call EXCEPT !.ids = Append(call.ids, c.id)]
    /\ UNCHANGED <<worldVars, threads, returned, maskVars, twin, heap>>

\* The identities are known: query_erased runs on the request built from them
\* and the results are turned into references
QueryReturn ==
    /\ call.op = "query"
    /\ Len(call.ids) = Len(call.types)
    /\ LET req == [k \in 1..Len(call.ids) |-> <<call.ids[k], "Read">>]
           o == TypedOutcome(QueryOutcome(archetypes, req), call.types)
       IN /\ results' = o.results
          /\ fault' = o.panic
          /\ archetypes' = o.archetypes
          /\ request' = req
    /\ borrowed' = TRUE
    /\ call' = NoCall
    /\ UNCHANGED <<regVars, maskVars, twin, heap, next_entity, alive, placed,
                   dtorLog, column>>

\* The Vec of results goes out of scope: the borrow of the World ends
Release ==
    /\ alive /\ fault = "none" /\ borrowed
    /\ borrowed' = FALSE
    /\ request' = <<>>
    /\ results' = <<>>
    /\ UNCHANGED <<regVars, maskVars, auxVars, archetypes, next_entity, alive, fault, placed, dtorLog, column>>

----------------------------------------------------------------------------
(* Teardown: the World is dropped, and with it every Archetype and Column *)

\* The destructor calls of dropping column c of archetype a
ColumnDropEvents(col, a, c) ==
    LET slots == ColumnDropSlots(col) IN
    [n \in 1..Len(slots) |-> [when |-> "column drop", a |-> a, c |-> c, i |-> slots[n]]]

WorldDropEvents(archs) ==
    Flatten([a \in 1..Len(archs) |->
                Flatten([c \in 1..Len(archs[a].columns) |->
                            ColumnDropEvents(archs[a].columns[c], a, c)])])

DropWorld ==
    /\ Running
    /\ alive' = FALSE
    /\ dtorLog' = dtorLog \o WorldDropEvents(archetypes)
    /\ UNCHANGED <<regVars, maskVars, auxVars, archetypes, next_entity, fault, borrowed, request, results,
                   placed, column>>

----------------------------------------------------------------------------
(* component_id and the static REGISTRY *)

RegThreads == 1..MaxThreads
RegTypes == {"A", "B", "C"}              \* TypeId::of::<T>()

IdleThread == [pc |-> "idle", type |-> "none", id |-> 0, began |-> 0]

\* Calls of component_id entered so far
Started ==
    Len(returned) + Cardinality({t \in RegThreads : threads[t].pc # "idle"})

\* A thread enters component_id::<T>()
Call(t, T) ==
    /\ threads[t].pc = "idle"
    /\ Started < MaxCalls
    /\ threads' = [threads EXCEPT ![t] = [pc |-> "get_or_init", type |-> T,
                                          id |-> 0, began |-> Len(returned)]]
    /\ UNCHANGED <<worldVars, maskVars, auxVars, registry, returned, assigned>>

\* REGISTRY.get_or_init(..): the first caller runs the initialiser, a caller
\* that arrives while it runs waits, a later caller gets the reference
GetOrInit(t) ==
    /\ threads[t].pc = "get_or_init"
    /\ registry.state # "running"
    /\ IF registry.state = "uninit"
       THEN /\ registry' = [registry EXCEPT !.state = "running"]
            /\ threads' = [threads EXCEPT ![t].pc = "initializing"]
       ELSE /\ threads' = [threads EXCEPT ![t].pc = "lock"]
            /\ UNCHANGED registry
    /\ UNCHANGED <<worldVars, maskVars, auxVars, returned, assigned>>

\* The initialiser returns and the OnceLock is set
InitDone(t) ==
    /\ threads[t].pc = "initializing"
    /\ registry' = RegistryNew
    /\ threads' = [threads EXCEPT ![t].pc = "lock"]
    /\ UNCHANGED <<worldVars, maskVars, auxVars, returned, assigned>>

\* let mut map = reg.map.lock();
Lock(t) ==
    /\ threads[t].pc = "lock"
    /\ CanLock(registry)
    /\ registry' = [registry EXCEPT !.lock = t]
    /\ threads' = [threads EXCEPT ![t].pc = "entry"]
    /\ UNCHANGED <<worldVars, maskVars, auxVars, returned, assigned>>

\* map.entry(TypeId::of::<T>()): an occupied entry yields the stored identity
Entry(t) ==
    /\ threads[t].pc = "entry"
    /\ IF Occupied(registry.map, threads[t].type)
       THEN threads' = [threads EXCEPT ![t].pc = "return",
                                       ![t].id = registry.map[threads[t].type]]
       ELSE threads' = [threads EXCEPT ![t].pc = "vacant"]
    /\ UNCHANGED <<worldVars, maskVars, auxVars, registry, returned, assigned>>

\* .or_insert_with(|| reg.next.fetch_add(1, Ordering::Relaxed)) on a vacant
\* entry: the counter's old value is stored for T and the counter advances
OrInsertWith(t) ==
    /\ threads[t].pc = "vacant"
    /\ registry' = [registry EXCEPT
                       !.map = MapInsert(registry.map, threads[t].type,
                                         registry.next),
                       !.next = registry.next + 1]
    /\ threads' = [threads EXCEPT ![t].pc = "return", ![t].id = registry.next]
    /\ assigned' = Append(assigned, threads[t].type)
    /\ UNCHANGED <<worldVars, maskVars, auxVars, returned>>

\* The identity is returned and the guard of the mutex is dropped
Return(t) ==
    /\ threads[t].pc = "return"
    /\ registry' = [registry EXCEPT !.lock = 0]
    /\ returned' = Append(returned, [thread |-> t, type |-> threads[t].type,
                                     id |-> threads[t].id,
                                     began |-> threads[t].began])
    /\ threads' = [threads EXCEPT ![t] = IdleThread]
    /\ UNCHANGED <<worldVars, maskVars, auxVars, assigned>>

----------------------------------------------------------------------------
(* ArchetypeMask on its own *)

\* Identities below MAX_COMPONENTS, in three different words of the mask
InRangeIds == {1, 2, 65}
\* Identities around and past MAX_COMPONENTS
WideIds == {1, 255, 256, 300}

ListsOver(S) == UNION {[1..n -> S] : n \in 0..MaxMaskLen}

\* A list of in-range identities with more than MAX_COMPONENTS entries
LongList == [k \in 1..(MAX_COMPONENTS + 1) |-> 1]

\* Three lists whose masks are compared, or one list to build a mask from
MaskInputs ==
    (ListsOver(InRangeIds) \X ListsOver(InRangeIds) \X ListsOver(InRangeIds))
    \cup {<<l>> : l \in ListsOver(WideIds) \cup {LongList}}

NoMask == [w \in {} |-> {}]

\* ArchetypeMask::from_ids on the next list
MaskFromIds ==
    /\ Len(built) < Len(idsIn)
    /\ \A n \in 1..Len(built) : built[n].panic = "none"
    /\ LET ids == idsIn[Len(built) + 1] IN
       built' = Append(built, [ids |-> ids, panic |-> FromIdsPanic(ids),
                               mask |-> IF FromIdsPanics(ids) THEN NoMask
                                        ELSE from_ids(ids)])
    /\ UNCHANGED <<worldVars, regVars, auxVars, idsIn, verdict>>

\* a.contains(b) for every pair of the masks built
MaskContains ==
    /\ idsIn # <<>>
    /\ Len(built) = Len(idsIn)
    /\ \A n \in 1..Len(built) : built[n].panic = "none"
    /\ verdict = <<>>
    /\ verdict' = [i \in 1..Len(built) |->
                      [j \in 1..Len(built) |->
                          contains(built[i].mask, built[j].mask)]]
    /\ UNCHANGED <<worldVars, regVars, auxVars, idsIn, built>>

----------------------------------------------------------------------------
(* The World *)

NoColumn == ColumnNew(0, 0, 0, "Pod", "None")

\* World::new()
WorldInit ==
    /\ archetypes = <<>>
    /\ next_entity = 0
    /\ alive = TRUE
    /\ fault = "none"
    /\ borrowed = FALSE
    /\ request = <<>>
    /\ results = <<>>
    /\ placed = <<>>
    /\ dtorLog = <<>>
    /\ column = NoColumn

\* static REGISTRY: OnceLock<Registry> = OnceLock::new(); no thread has called
RegInit ==
    /\ registry = [state |-> "uninit", map |-> [T \in {} |-> 0], next |-> 0,
                   lock |-> 0]
    /\ threads = [t \in RegThreads |-> IdleThread]
    /\ returned = <<>>
    /\ assigned = <<>>

\* No mask has been built
MaskNone ==
    /\ idsIn = <<>>
    /\ built = <<>>
    /\ verdict = <<>>

\* The twin World, and no buffer allocated
TwinNew == [archetypes |-> <<>>, next_entity |-> 0, returned |-> <<>>,
            last |-> <<>>]

AuxInit ==
    /\ twin = TwinNew
    /\ heap = NoHeap
    /\ call = NoCall

\* A process that has called A::component_id() and B::component_id(), in this
\* order, before it builds the World: the records it hands to spawn_erased
\* carry these identities
RegReady ==
    /\ registry = RegisterAll([state |-> "uninit", map |-> [T \in {} |-> 0],
                               next |-> 0, lock |-> 0], <<"A", "B">>)
    /\ threads = [t \in RegThreads |-> IdleThread]
    /\ returned = <<>>
    /\ assigned = <<"A", "B">>

\* A World in a process whose component types are registered
Init == WorldInit /\ RegReady /\ MaskNone /\ AuxInit

\* A process in which component_id has not been called
FreshInit == WorldInit /\ RegInit /\ MaskNone /\ AuxInit

\* The number of component values spawned so far
RECURSIVE CellsFrom(_)
CellsFrom(n) ==
    IF n > Len(placed) THEN 0 ELSE Len(placed[n].bundle) + CellsFrom(n + 1)
Cells == CellsFrom(1)

\* Spawns and teardown.  A typed spawn takes 2n + 1 steps: it is called on
\* Worlds of up to MaxCells component values, spawn_erased on every World.
Next ==
    \/ \E shape \in TypeShapes(1) :
          /\ Cells + Len(shape) <= MaxCells
          /\ Spawn(TypedBundle(shape, next_entity))
    \/ SpawnId
    \/ SpawnReturn
    \/ \E shape \in BundleShapes(0) : SpawnErased(Bundle(shape, next_entity))
    \/ DropWorld

Spec == Init /\ [][Next]_vars

\* Spawns and queries.  The worlds that are queried are built by spawn_erased,
\* which also takes the empty bundle; MixSpec has the typed spawn as well.
QueryNext ==
    \/ \E shape \in BundleShapes(0) :
          /\ Cells + Len(shape) <= MaxCells
          /\ SpawnErased(Bundle(shape, next_entity))
    \/ \E req \in Requests : QueryErased(req)
    \/ \E A \in QueryTypes : QueryRef(A)
    \/ \E A, B \in QueryTypes : QueryRefPair(A, B)
    \/ QueryId
    \/ QueryReturn
    \/ Release

QuerySpec == Init /\ [][QueryNext]_vars

\* Every call a World takes, typed and erased, on one World: spawn,
\* spawn_erased, query_erased, query::<&A>() and query::<(&A, &B)>()
MixNext ==
    \/ \E shape \in TypeShapes(1) :
          /\ Cells + Len(shape) <= MaxCells
          /\ Spawn(TypedBundle(shape, next_entity))
    \/ SpawnId
    \/ SpawnReturn
    \/ \E shape \in BundleShapes(0) :
          /\ Cells + Len(shape) <= MaxCells
          /\ SpawnErased(Bundle(shape, next_entity))
    \/ \E item \in RequestItems : QueryErased(<<item>>)
    \/ \E A \in QueryTypes : QueryRef(A)
    \/ \E A, B \in QueryTypes : QueryRefPair(A, B)
    \/ QueryId
    \/ QueryReturn
    \/ Release

MixSpec == Init /\ [][MixNext]_vars

----------------------------------------------------------------------------
(* One Column on its own *)

\* Column::new(capacity, ..): alloc of a zero-sized layout may return null, and
\* then NonNull::new(ptr).unwrap() panics
ColInit ==
    /\ archetypes = <<>>
    /\ next_entity = 0
    /\ alive = TRUE
    /\ borrowed = FALSE
    /\ request = <<>>
    /\ results = <<>>
    /\ placed = <<>>
    /\ dtorLog = <<>>
    /\ RegInit
    /\ MaskNone
    /\ twin = TwinNew
    /\ call = NoCall
    /\ \E capacity \in 0..MaxCap, id \in CompIds :
          /\ column = ColumnNew(capacity, id, SizeOf(id), KindOf(id),
                                DropFnOf(KindOf(id)))
          /\ fault \in IF capacity * SizeOf(id) = 0
                       THEN {"none", "called Option::unwrap() on a None value"}
                       ELSE {"none"}
          /\ heap = IF fault = "none"
                    THEN HeapAlloc(NoHeap, SizeOf(id) * capacity)
                    ELSE NoHeap

\* A push whose slot lies past the allocation (capacity 0 doubles to 0) writes
\* out of bounds: the write lands in memory the column does not own, or the
\* process dies
ColPushOutcomes == {"lands", "segfault"}

ColumnPush(comp, outcome) ==
    /\ alive /\ fault = "none"
    /\ column.len < MaxPush
    /\ comp.id = column.id
    /\ LET pushed == push(column, comp) IN
       IF pushed.len > pushed.capacity /\ outcome = "segfault"
       THEN fault' = "segfault" /\ UNCHANGED <<column, heap>>
       ELSE /\ column' = pushed
            /\ heap' = GrowHeap(heap, column)
            /\ UNCHANGED fault
    /\ UNCHANGED <<regVars, maskVars, twin, call, archetypes, next_entity, alive, borrowed,
                   request, results, placed, dtorLog>>

ColumnPushErased(comp, outcome) ==
    /\ alive /\ fault = "none"
    /\ column.len < MaxPush
    /\ comp.id = column.id
    /\ LET pushed == push_erased(column, comp) IN
       IF pushed.len > pushed.capacity /\ outcome = "segfault"
       THEN fault' = "segfault" /\ UNCHANGED <<column, heap>>
       ELSE /\ column' = pushed
            /\ heap' = GrowHeap(heap, column)
            /\ UNCHANGED fault
    /\ UNCHANGED <<regVars, maskVars, twin, call, archetypes, next_entity, alive, borrowed,
                   request, results, placed, dtorLog>>

\* impl Drop for Column
ColumnDrop ==
    /\ alive /\ fault = "none"
    /\ alive' = FALSE
    /\ dtorLog' = dtorLog \o ColumnDropEvents(column, 0, 0)
    /\ heap' = HeapDealloc(heap, heap.ptr, DeallocSize(column))
    /\ UNCHANGED <<regVars, maskVars, twin, call, archetypes, next_entity, fault, borrowed,
                   request, results, placed, column>>

ColNext ==
    \/ \E comp \in Components, outcome \in ColPushOutcomes : ColumnPush(comp, outcome)
    \/ \E comp \in Components, outcome \in ColPushOutcomes :
          ColumnPushErased(comp, outcome)
    \/ ColumnDrop

ColSpec == ColInit /\ [][ColNext]_vars

----------------------------------------------------------------------------
(* The registry and the mask on their own *)

RegNext ==
    \/ \E t \in RegThreads, T \in RegTypes : Call(t, T)
    \/ \E t \in RegThreads : GetOrInit(t)
    \/ \E t \in RegThreads : InitDone(t)
    \/ \E t \in RegThreads : Lock(t)
    \/ \E t \in RegThreads : Entry(t)
    \/ \E t \in RegThreads : OrInsertWith(t)
    \/ \E t \in RegThreads : Return(t)

RegSpec == FreshInit /\ [][RegNext]_vars

MaskInit ==
    /\ WorldInit
    /\ RegInit
    /\ AuxInit
    /\ idsIn \in MaskInputs
    /\ built = <<>>
    /\ verdict = <<>>

MaskNext == MaskFromIds \/ MaskContains

MaskSpec == MaskInit /\ [][MaskNext]_vars

----------------------------------------------------------------------------
(* Typed and erased spawn side by side *)

\* Both Worlds have been given the same bundles: spawn(bundle) is called on
\* one of them, the World (typed) or the twin
TwinSpawn(bundle, typed) ==
    /\ Len(placed) = Len(twin.returned)
    /\ Cells + Len(bundle) <= MaxCells
    /\ SpawnBegin(bundle, ~typed)

\* spawn_erased(records) on the World that has not seen the bundle the other
\* was given last (twin.last, when the twin was given it), records being the
\* components of that bundle in the same order, with the identity id() reports.
\* spawn_erased asks the registry nothing and waits for nothing.
TwinErased ==
    /\ Running
    /\ Len(placed) # Len(twin.returned)
    /\ IF Len(placed) < Len(twin.returned)
       THEN LET o == SpawnErasedOutcome(archetypes, next_entity, twin.last) IN
            /\ archetypes' = o.archetypes
            /\ next_entity' = o.next
            /\ fault' = o.panic
            /\ placed' = IF o.panic = "none"
                         THEN Append(placed, [bundle |-> twin.last, arch |-> o.arch,
                                              slots |-> o.slots, entity |-> o.id])
                         ELSE placed
            /\ twin' = [twin EXCEPT !.last = <<>>]
            /\ UNCHANGED <<regVars, maskVars, heap, call, alive, borrowed, request,
                           results, dtorLog, column>>
       ELSE LET comps == placed[Len(placed)].bundle
                e == SpawnErasedOutcome(twin.archetypes, twin.next_entity, comps)
            IN /\ twin' = [twin EXCEPT !.archetypes = e.archetypes,
                                       !.next_entity = e.next,
                                       !.returned = IF e.panic = "none"
                                                    THEN Append(twin.returned, e.id)
                                                    ELSE twin.returned]
               /\ fault' = e.panic
               /\ UNCHANGED <<regVars, maskVars, heap, call, archetypes, next_entity,
                              alive, borrowed, request, results, placed, dtorLog,
                              column>>

\* Both Worlds have been given the same bundles: spawn_erased(records) is
\* called on the World (TwinErased then hands the same records to the twin)
TwinSpawnErased(records) ==
    /\ Len(placed) = Len(twin.returned)
    /\ Cells + Len(records) <= MaxCells
    /\ SpawnErased(records)

TwinNext ==
    \/ \E shape \in TypeShapes(1), typed \in BOOLEAN :
          TwinSpawn(TypedBundle(shape, next_entity), typed)
    \/ \E shape \in BundleShapes(0) : TwinSpawnErased(Bundle(shape, next_entity))
    \/ SpawnId
    \/ SpawnReturn
    \/ TwinErased

TwinSpec == Init /\ [][TwinNext]_vars

----------------------------------------------------------------------------
(* Registering and spawning one component type after the other *)

\* The whole of component_id::<T>() for the next type never seen before, by
\* one thread; the call waits while the registry is not free
RegisterNext ==
    /\ call = NoCall
    /\ Len(built) = Len(returned)
    /\ \A n \in 1..Len(built) : built[n].panic = "none"
    /\ Len(assigned) < MAX_COMPONENTS
    /\ RegistryFree(registry)
    /\ LET T == Len(assigned) + 1
           c == ComponentId(registry, T)
       IN /\ registry' = c.registry
          /\ assigned' = assigned \o Fresh(registry, <<T>>)
          /\ returned' = Append(returned, [thread |-> 1, type |-> T,
                                           id |-> c.id,
                                           began |-> Len(returned)])
    /\ UNCHANGED <<worldVars, maskVars, auxVars, threads>>

\* A component of the type registered last is spawned into a fresh World:
\* spawn is entered and comp.id() asks the registry (world.rs:21)
SpawnRegistered ==
    /\ call = NoCall
    /\ Len(built) < Len(returned)
    /\ RegistryFree(registry)
    /\ LET T == returned[Len(built) + 1].type
           c == ComponentId(registry, T)
       IN /\ registry' = c.registry
          /\ assigned' = assigned \o Fresh(registry, <<T>>)
          /\ call' = [op |-> "spawn", bundle |-> <<[type |-> T]>>,
                      ids |-> <<c.id>>, pc |-> 1, onTwin |-> FALSE]
    /\ UNCHANGED <<worldVars, maskVars, twin, heap, threads, returned>>

\* No archetype is there to match: the else branch builds the mask of the
\* identity, which panics or is followed by the comp.id() of world.rs:50
SpawnRegisteredMask ==
    /\ call.op = "spawn"
    /\ call.pc = 1
    /\ IF FromIdsPanics(call.ids)
       THEN /\ idsIn' = Append(idsIn, call.ids)
            /\ built' = Append(built, [ids |-> call.ids,
                                       panic |-> FromIdsPanic(call.ids),
                                       mask |-> NoMask])
            /\ call' = NoCall
            /\ UNCHANGED <<registry, assigned>>
       ELSE /\ RegistryFree(registry)
            /\ LET T == call.bundle[1].type
                   c == ComponentId(registry, T)
               IN /\ registry' = c.registry
                  /\ assigned' = assigned \o Fresh(registry, <<T>>)
            /\ call' = [call EXCEPT !.pc = 2]
            /\ UNCHANGED <<idsIn, built>>
    /\ UNCHANGED <<worldVars, twin, heap, verdict, threads, returned>>

\* The column and the archetype are built around the mask and spawn returns
SpawnRegisteredReturn ==
    /\ call.op = "spawn"
    /\ call.pc = 2
    /\ idsIn' = Append(idsIn, call.ids)
    /\ built' = Append(built, [ids |-> call.ids, panic |-> "none",
                               mask |-> from_ids(call.ids)])
    /\ call' = NoCall
    /\ UNCHANGED <<worldVars, regVars, twin, heap, verdict>>

CapNext ==
    \/ RegisterNext
    \/ SpawnRegistered
    \/ SpawnRegisteredMask
    \/ SpawnRegisteredReturn

CapSpec == FreshInit /\ [][CapNext]_vars

----------------------------------------------------------------------------
(* Typed calls racing with component_id calls of other threads *)

\* The World's thread spawns and queries (A, B) in a process in which nothing
\* is registered, while the other threads call component_id: between two
\* component_id calls of a spawn or a query the registry is free for them
RaceNext ==
    \/ Spawn(TypedBundle(<<"A", "B">>, next_entity))
    \/ SpawnId
    \/ SpawnReturn
    \/ QueryRefPair("A", "B")
    \/ QueryId
    \/ QueryReturn
    \/ Release
    \/ RegNext

RaceSpec == FreshInit /\ [][RaceNext]_vars

----------------------------------------------------------------------------
(* Properties *)

Entities == 1..Len(placed)             \* placed[e + 1] is the record of entity e
ShapeSet(n) == IdSet(IdsOf(placed[n].bundle))
Archs == 1..Len(archetypes)

\* The number of destructor invocations on the value stored at <<a, c, i>>
Destroyed(a, c, i) ==
    Cardinality({n \in 1..Len(dtorLog) :
                    dtorLog[n].a = a /\ dtorLog[n].c = c /\ dtorLog[n].i = i})

\* The slots that hold a value with a destructor
ExternSlots ==
    UNION {{<<placed[n].arch, placed[n].slots[k][1], placed[n].slots[k][2]>> :
               k \in {j \in 1..Len(placed[n].bundle) :
                         placed[n].bundle[j].drop_fn = "Some"}}
           : n \in Entities}

\* C1 (row lockstep): in every reachable world, for every archetype the length
\* of its entity list equals the len of every one of its columns.
C1_RowLockstep ==
    \A a \in Archs : \A c \in 1..Len(archetypes[a].columns) :
        Len(archetypes[a].entities) = archetypes[a].columns[c].len

\* C3 (schema routing, different sets): two spawned bundles with different
\* sets of component identities are placed in different archetypes, and the
\* receiving archetype's mask is the bundle's own identity set.
C3_DifferentSetsDifferentArchetypes ==
    /\ \A m, n \in Entities :
          ShapeSet(m) # ShapeSet(n) => placed[m].arch # placed[n].arch
    /\ \A n \in Entities :
          MaskIds(archetypes[placed[n].arch].mask) = ShapeSet(n)

\* C4 (schema routing, same set): two spawns whose bundles have the same set of
\* component identities place their rows in the same archetype, whatever the
\* order of the components and whatever was spawned before or in between.
C4_SameSetSameArchetype ==
    \A m, n \in Entities :
        ShapeSet(m) = ShapeSet(n) => placed[m].arch = placed[n].arch

\* Two spawns of the same set listed in different orders, with a spawn of
\* another set in between, all in place
C4_Witness ==
    /\ fault = "none"
    /\ Len(placed) = 3
    /\ IdsOf(placed[1].bundle) = <<1, 2>>
    /\ IdsOf(placed[2].bundle) = <<1>>
    /\ IdsOf(placed[3].bundle) = <<2, 1>>
    /\ placed[1].arch = placed[3].arch

\* C5 (cleanup only at teardown): no destructor of a spawned value runs at the
\* return of a spawn, and once the world is torn down every spawned value with
\* a destructor has been destroyed exactly once.
C5_CleanupOnlyAtTeardown ==
    /\ \A n \in 1..Len(dtorLog) : dtorLog[n].when = "column drop"
    /\ ~alive => \A s \in ExternSlots : Destroyed(s[1], s[2], s[3]) = 1

----------------------------------------------------------------------------
(* Properties of queries.  While borrowed, results is what the last query  *)
(* returned for request, and the World is as the query found it.           *)

Returned == borrowed /\ fault = "none"
Requested == {request[k][1] : k \in 1..Len(request)}

\* Every (result, component) position of the returned list
Views == UNION {{<<r, k>> : k \in 1..Len(results[r].components)}
                : r \in 1..Len(results)}
ViewAt(p) == results[p[1]].components[p[2]]

\* Two views cover a common byte
Overlap(v, w) ==
    /\ v.a = w.a /\ v.c = w.c
    /\ v.off < w.off + w.size
    /\ w.off < v.off + v.size

\* The archetypes whose schema holds every requested identity
Matching == {a \in Archs : Requested \subseteq MaskIds(archetypes[a].mask)}

RECURSIVE EntitiesFrom(_)
EntitiesFrom(a) ==
    IF a > Len(archetypes) THEN <<>>
    ELSE (IF a \in Matching THEN archetypes[a].entities ELSE <<>>)
         \o EntitiesFrom(a + 1)

RECURSIVE SumRows(_)
SumRows(as) ==
    IF as = {} THEN 0
    ELSE LET a == CHOOSE x \in as : TRUE
         IN Len(archetypes[a].entities) + SumRows(as \ {a})

\* C2 (row/entity correspondence): in what a query returns, the result bound
\* to entity e carries, for every requested component C that e's spawn supplied
\* with value v, exactly the bytes of v: the view lies within the initialised
\* part of its column and covers the bytes of v.
C2_ResultCarriesSpawnedBytes ==
    Returned =>
        \A r \in 1..Len(results) : \A k \in 1..Len(request) :
            LET b == placed[results[r].entity + 1].bundle IN
            \A j \in 1..Len(b) :
                b[j].id = request[k][1] =>
                    LET v == results[r].components[k]
                        col == archetypes[v.a].columns[v.c]
                    IN /\ v.off + v.size <= col.len * col.size
                       /\ SubSeq(col.buf, v.off + 1, v.off + v.size) = b[j].data

\* C7 (query result set): a query that returns yields one result per row of
\* every archetype whose mask is a superset of the requested identities, bound
\* to the entity id stored at that row, in archetype and row order, and nothing
\* else; the number of results is the sum of the matching entity-list lengths.
C7_QueryResultSet ==
    Returned =>
        /\ [r \in 1..Len(results) |-> results[r].entity] = EntitiesFrom(1)
        /\ Len(results) = SumRows(Matching)
        /\ \A p \in Views : ViewAt(p).a \in Matching

\* A query over two archetypes of which one matches and one does not, the
\* matching one holding two rows
C7_Witness ==
    /\ Returned
    /\ Len(archetypes) = 2
    /\ Cardinality(Matching) = 1
    /\ Len(results) = 2
    /\ request # <<>>

\* C8 (write exclusivity): among the views one query returns, a Write view
\* shares no byte with any other view, Read or Write.
C8_WriteViewsExclusive ==
    Returned =>
        \A p, q \in Views :
            (p # q /\ ViewAt(p).access = "Write") => ~Overlap(ViewAt(p), ViewAt(q))

\* C9 (absence is not an error): a query that asks for an identity no
\* archetype holds, one never registered included, returns an empty list and
\* does not fault.
C9_AbsentIdentityNeverFaults ==
    (borrowed /\ \E id \in Requested : \A a \in Archs : id \notin MaskIds(archetypes[a].mask))
        => (fault = "none" /\ results = <<>>)

\* The archetype and the row (from 0) that hold entity e
HomeOf(e) ==
    CHOOSE h \in UNION {{<<a, i>> : i \in 0..(Len(archetypes[a].entities) - 1)}
                        : a \in Archs} :
        archetypes[h[1]].entities[h[2] + 1] = e

\* C10 (per-component access mode): in every result the k-th view is a Read
\* view if the k-th request asked Read and a Write view if it asked Write, and
\* covers exactly the size bytes at offset row * size of the first column of
\* the entity's archetype whose identity is the k-th requested identity; the
\* typed queries never reach unreachable!().
C10_ViewMatchesRequest ==
    /\ fault # "unreachable"
    /\ Returned =>
          \A r \in 1..Len(results) :
              /\ Len(results[r].components) = Len(request)
              /\ \A k \in 1..Len(request) :
                    LET v == results[r].components[k]
                        h == HomeOf(results[r].entity)
                        cols == archetypes[h[1]].columns
                    IN /\ v.access = request[k][2]
                       /\ v.a = h[1]
                       /\ cols[v.c].id = request[k][1]
                       /\ \A c \in 1..(v.c - 1) : cols[c].id # request[k][1]
                       /\ v.size = cols[v.c].size
                       /\ v.off = h[2] * cols[v.c].size

\* One query asking Read of one component and Write of another, over two rows
C10_Witness ==
    /\ Returned
    /\ Len(results) = 2
    /\ Len(request) = 2
    /\ request[1][1] # request[2][1]
    /\ results[2].components[1].access = "Read"
    /\ results[2].components[2].access = "Write"
    /\ results[2].components[2].off > 0

----------------------------------------------------------------------------
(* Properties of the Column *)

\* C6 (destructor exactly once at teardown): dropping a column with a
\* destructor invokes it exactly once for each slot 0..len-1 and for no slot
\* >= len; a column without a destructor invokes nothing.
C6_DestructorOncePerLiveSlot ==
    ~alive =>
        /\ \A n \in 1..Len(dtorLog) : dtorLog[n].i \in 0..(column.len - 1)
        /\ \A i \in 0..(column.len - 1) :
              Destroyed(0, 0, i) = IF column.drop_fn = "Some" THEN 1 ELSE 0
        /\ column.drop_fn = "None" => dtorLog = <<>>

\* A dropped column with a destructor that grew and has un-pushed slots left
C6_Witness ==
    /\ ~alive
    /\ column.drop_fn = "Some"
    /\ column.capacity > MaxCap
    /\ column.len >= 2
    /\ column.len < column.capacity
    /\ Len(dtorLog) = column.len

----------------------------------------------------------------------------
(* Properties of the archetype list and of entity identities *)

\* C11 (at most one archetype per schema): no two archetypes of the world have
\* the same schema mask.
C11_OneArchetypePerMask ==
    \A a, b \in Archs : a # b => archetypes[a].mask # archetypes[b].mask

\* Three spawns, two of them with the same identity set, leave two archetypes
C11_Witness ==
    /\ fault = "none"
    /\ Len(placed) = 3
    /\ Len(archetypes) = 2
    /\ \E m, n \in Entities : m # n /\ ShapeSet(m) = ShapeSet(n)

\* C12 (entity identities are never reused): the n-th completed spawn, typed or
\* erased, into an existing or a new archetype, returned n - 1; no identity was
\* returned twice; the counter is the number of completed spawns.
C12_EntityIdsCountUp ==
    /\ \A n \in Entities : placed[n].entity = n - 1
    /\ \A m, n \in Entities : m # n => placed[m].entity # placed[n].entity
    /\ next_entity = Len(placed)

\* Three spawns: one opens an archetype, one joins it, one opens another
C12_Witness ==
    /\ fault = "none"
    /\ Len(placed) = 3
    /\ placed[1].arch = placed[2].arch
    /\ placed[3].arch # placed[1].arch
    /\ placed[3].entity = 2

\* C13 (one column per distinct identity): in every archetype the columns carry
\* pairwise different identities, and the identities of the columns are the
\* identities set in the mask.
C13_OneColumnPerIdentity ==
    \A a \in Archs :
        LET cols == archetypes[a].columns IN
        /\ \A c, d \in 1..Len(cols) : c # d => cols[c].id # cols[d].id
        /\ {cols[c].id : c \in 1..Len(cols)} = MaskIds(archetypes[a].mask)

----------------------------------------------------------------------------
(* Properties of a growing Column *)

\* C14 (growth preserves content): a push or push_erased, growing or not,
\* leaves the bytes of every element below the old len as they were and
\* writes slot len only.
C14_PushPreservesContent ==
    [][column'.len = column.len + 1 =>
          /\ SubSeq(column'.buf, 1, column.len * column.size) = column.buf
          /\ Len(column'.buf) = (column.len + 1) * column.size]_vars

\* A column that has grown twice and holds elements of different bytes
C14_Witness ==
    /\ alive /\ fault = "none"
    /\ Len(heap.frees) >= 2
    /\ column.len >= 3
    /\ \E i, j \in 1..Len(column.buf) : column.buf[i] # column.buf[j]

\* C15 (column bound): len <= capacity in every state of a column created with
\* any capacity and pushed any number of times.
C15_LenWithinCapacity == column.len <= column.capacity

----------------------------------------------------------------------------
(* Properties of the registry *)

Calls == 1..Len(returned)

\* Two completed calls of which the later returned one began before the
\* earlier one returned
Raced(m, n) == m < n /\ returned[n].began < m

\* C16 (identity stability): under every interleaving, two calls for the same
\* type return the same identity and two calls for different types return
\* different identities.
C16_IdentityStable ==
    \A m, n \in Calls :
        (returned[m].type = returned[n].type) = (returned[m].id = returned[n].id)

\* Three calls done: two for one type, one for another
C16_Witness ==
    /\ Len(returned) = 3
    /\ returned[1].type = returned[3].type
    /\ returned[2].type # returned[1].type

\* C17 (registry thread safety): with threads racing, first calls for one type
\* and the initialisation included, one identity is allocated per type, every
\* caller of a type observes it, and the counter has advanced once per type:
\* no identity is skipped and none is given to two types.
C17_LookupOrAllocateAtomic ==
    /\ \A n \in Calls :
          /\ returned[n].type \in DOMAIN registry.map
          /\ registry.map[returned[n].type] = returned[n].id
    /\ registry.state = "ready" =>
          /\ {registry.map[T] : T \in DOMAIN registry.map}
                = 1..Cardinality(DOMAIN registry.map)
          /\ registry.next = Cardinality(DOMAIN registry.map) + 1
          /\ Len(assigned) = Cardinality(DOMAIN registry.map)
    /\ Cardinality({t \in RegThreads :
                       threads[t].pc \in {"entry", "vacant", "return"}}) <= 1
    /\ Cardinality({t \in RegThreads : threads[t].pc = "initializing"}) <= 1

\* Two threads made the very first calls at the same time, for the same type,
\* and both have returned
C17_Witness ==
    /\ Len(returned) >= 2
    /\ returned[1].thread # returned[2].thread
    /\ returned[1].type = returned[2].type
    /\ returned[1].began = 0 /\ returned[2].began = 0
    /\ Raced(1, 2)

\* C18 (sentinel never assigned): no call returns 0, and the k-th type to be
\* given an identity is given k, so a type first seen later has a larger
\* identity than every type seen before it.
C18_FirstSeenOrder ==
    /\ \A n \in Calls : returned[n].id # 0
    /\ \A k \in 1..Len(assigned) :
          /\ assigned[k] \in DOMAIN registry.map
          /\ registry.map[assigned[k]] = k
    /\ \A j, k \in 1..Len(assigned) : j # k => assigned[j] # assigned[k]

\* Three types seen one after the other, all three calls returned
C18_Witness ==
    /\ Len(assigned) = 3
    /\ Len(returned) = 3
    /\ \A n \in Calls : returned[n].type = assigned[n] /\ returned[n].id = n

----------------------------------------------------------------------------
(* Properties of the mask *)

Masks == 1..Len(built)

\* C19 (containment is a partial order): on masks built by from_ids, contains
\* is reflexive and transitive, and every mask contains the mask of the empty
\* list.
C19_ContainsReflexiveTransitive ==
    verdict # <<>> =>
        /\ \A i \in Masks : verdict[i][i]
        /\ \A i, j, k \in Masks : (verdict[i][j] /\ verdict[j][k]) => verdict[i][k]
        /\ \A i \in Masks : contains(built[i].mask, from_ids(<<>>))

\* Three different masks in a chain, the largest spanning two words, the
\* smallest possibly empty
C19_Witness ==
    /\ verdict # <<>>
    /\ Len(built) = 3
    /\ verdict[1][2] /\ verdict[2][3] /\ verdict[1][3]
    /\ ~verdict[2][1] /\ ~verdict[3][2]
    /\ built[2].mask # from_ids(<<>>)
    /\ \E w \in 1..(WORDS - 1) : built[1].mask[w] # {}

\* C20 (capacity violation is fatal): from_ids panics whenever some identity of
\* its list exceeds MAX_COMPONENTS, and returns a mask whenever none does,
\* whatever the length of the list.
C20_PanicsExactlyPastCapacity ==
    \A n \in Masks :
        LET ids == built[n].ids IN
        /\ (\E k \in 1..Len(ids) : ids[k] > MAX_COMPONENTS)
              => built[n].panic # "none"
        /\ (\A k \in 1..Len(ids) : ids[k] <= MAX_COMPONENTS)
              => built[n].panic = "none"

----------------------------------------------------------------------------
(* Properties of the growth and of the buffers of a Column *)

\* The capacity the column was created with
Created == IF heap.allocs = <<>> THEN 0 ELSE heap.allocs[1] \div column.size

\* c * 2^k for the smallest k >= 0 with c * 2^k >= n
RECURSIVE CapFor(_, _)
CapFor(c, n) == IF c >= n THEN c ELSE CapFor(2 * c, n)

\* n more typed spawns of the same one-component bundle into the World w, the
\* first half of them and then the rest; a spawn that panics ends the run
RECURSIVE SpawnMany(_, _)
SpawnMany(w, n) ==
    IF w.panic # "none" \/ n = 0 THEN w
    ELSE IF n = 1
    THEN SpawnOutcome(w.archetypes, w.next, Bundle(<<1>>, w.next))
    ELSE SpawnMany(SpawnMany(w, n \div 2), n - n \div 2)

WorldPastCapacity ==
    SpawnMany([panic |-> "none", archetypes |-> <<>>, next |-> 0],
              InitialCapacity + 1).archetypes

\* C22 (growth policy): for a column created with capacity c >= 1, a push
\* changes the capacity only when len = capacity before it, and then doubles
\* it; with len = N the capacity is c * 2^k for the smallest k with
\* c * 2^k >= N; InitialCapacity + 1 spawns of one single-component bundle
\* leave one column of that len, of twice the initial capacity, whose element i
\* is the value of the i-th spawn.
C22_GrowthPolicy ==
    /\ []((Created >= 1 /\ fault = "none") =>
             column.capacity = CapFor(Created, column.len))
    /\ [][(Created >= 1 /\ column' # column) =>
             /\ column'.len = column.len + 1
             /\ column'.capacity = IF column.len = column.capacity
                                   THEN 2 * column.capacity
                                   ELSE column.capacity]_vars
    /\ [](LET w == WorldPastCapacity IN
          /\ Len(w) = 1
          /\ Len(w[1].columns) = 1
          /\ w[1].columns[1].len = InitialCapacity + 1
          /\ w[1].columns[1].capacity = 2 * InitialCapacity
          /\ w[1].entities = [i \in 1..(InitialCapacity + 1) |-> i - 1]
          /\ w[1].columns[1].buf = [i \in 1..(InitialCapacity + 1) |-> i])

\* A column that grew twice and was pushed into its last capacity
C22_Witness ==
    /\ alive /\ fault = "none"
    /\ Created >= 1
    /\ Len(heap.allocs) >= 3
    /\ column.capacity = 4 * Created
    /\ column.len > 2 * Created

Buffers == 1..Len(heap.allocs)
Releases(b) == {n \in 1..Len(heap.frees) : heap.frees[n].buf = b}

\* C23 (buffer accounting): the buffer the column owns was allocated with
\* capacity * layout.size bytes; every release is of a buffer the column
\* allocated and passes the size of its allocation; no buffer is released
\* twice; every buffer but the owned one has been released, and after the
\* teardown, which ran the destructors of the live elements, all of them.
C23_BufferAccounting ==
    /\ \A n \in 1..Len(heap.frees) :
          /\ heap.frees[n].buf \in Buffers
          /\ heap.frees[n].size = heap.allocs[heap.frees[n].buf]
    /\ \A b \in Buffers : Cardinality(Releases(b)) <= 1
    /\ (alive /\ fault = "none") =>
          /\ heap.ptr \in Buffers
          /\ heap.allocs[heap.ptr] = column.capacity * column.size
          /\ \A b \in Buffers : (Releases(b) = {}) = (b = heap.ptr)
    /\ ~alive =>
          /\ \A b \in Buffers : Cardinality(Releases(b)) = 1
          /\ heap.frees[Len(heap.frees)].buf = heap.ptr
          /\ Len(dtorLog) = IF column.drop_fn = "Some" THEN column.len ELSE 0

\* A column torn down after two growths, with live elements that have a
\* destructor and spare capacity
C23_Witness ==
    /\ ~alive
    /\ column.drop_fn = "Some"
    /\ Len(heap.allocs) = 3
    /\ Len(heap.frees) = 3
    /\ column.len < column.capacity

----------------------------------------------------------------------------
(* Properties of the two spawn entry points and of the mask's capacity *)

\* C21 (typed and erased spawn are equivalent): along every sequence of spawns,
\* each of which hands a bundle typed to one of two Worlds and then the same
\* components erased to the other (or the same records erased to both), the
\* two Worlds have returned the same entity ids, and once both have been given
\* the bundle they are in the same state: archetype list, masks, columns
\* (identity, len, capacity, bytes), entity lists and counter.
C21_TypedEqualsErased ==
    /\ \A n \in 1..Len(placed) :
          n <= Len(twin.returned) => twin.returned[n] = placed[n].entity
    /\ Len(twin.returned) = Len(placed) =>
          /\ twin.archetypes = archetypes
          /\ twin.next_entity = next_entity

\* Three bundles spawned both ways, into two archetypes, one of them holding a
\* component with a destructor in its second row
C21_Witness ==
    /\ fault = "none"
    /\ Len(twin.returned) = 3
    /\ Len(placed) = 3
    /\ dtorLog # <<>>
    /\ Len(twin.archetypes) = 2
    /\ \E a \in 1..Len(twin.archetypes) :
          \E c \in 1..Len(twin.archetypes[a].columns) :
              /\ twin.archetypes[a].columns[c].kind = "Extern"
              /\ twin.archetypes[a].columns[c].len >= 2

\* C27 (mask capacity covers the registry): the identity of each of the first
\* MAX_COMPONENTS component types is accepted by from_ids and sets a bit of
\* its own, so that registering and spawning that many types never panics.
C27_MaskCoversRegistry ==
    \A n \in 1..Len(built) :
        /\ built[n].panic = "none"
        /\ built[n].ids = <<returned[n].id>>
        /\ MaskIds(built[n].mask) = {returned[n].id}

\* C25 (containment is subset testing): for lists X and Y of identities below
\* MAX_COMPONENTS, from_ids(X).contains(from_ids(Y)) is true exactly when every
\* identity of Y occurs in X, whatever the order and the repetitions; and
\* has_components(Y) on an archetype is true exactly when the identities of Y
\* are among those of the archetype's mask.
C25_ContainsIsSubset ==
    verdict # <<>> =>
        \A i, j \in 1..Len(built) :
            LET X == built[i].ids
                Y == built[j].ids
                arch == ArchetypeNew(built[i].mask, <<>>)
            IN /\ \A k \in 1..Len(X) : X[k] < MAX_COMPONENTS
               /\ verdict[i][j] = (IdSet(Y) \subseteq IdSet(X))
               /\ has_components(arch, Y) = (IdSet(Y) \subseteq MaskIds(arch.mask))

\* Two identities of one word in both orders, and one of them repeated
C25_Witness ==
    /\ verdict # <<>>
    /\ idsIn = << <<1, 2>>, <<2, 1>>, <<2, 2>> >>
    /\ verdict[1][2] /\ verdict[2][1] /\ verdict[1][3] /\ ~verdict[3][1]

----------------------------------------------------------------------------
(* Properties of the archetypes across spawns and queries *)

\* The ids and sizes of the columns of an archetype, with its mask
Schema(arch) ==
    [mask |-> arch.mask,
     columns |-> [c \in 1..Len(arch.columns) |->
                     <<arch.columns[c].id, arch.columns[c].size>>]]

\* C24 (no internal desynchronisation): in every World reached by spawn and
\* spawn_erased calls, an archetype for which has_components(ids) is true has
\* a column for every identity of ids: get_column_with_component_mut finds one
\* for each component of a bundle routed to it, and so does the position
\* lookup of query_erased for each item of a request that matches it; no spawn
\* ends in 'Should have found column after bitset check'.
C24_NoDesync ==
    /\ \A archs \in {archetypes, twin.archetypes} :
          \A a \in 1..Len(archs) :
              /\ \A ids \in BundleShapes(0) :
                    has_components(archs[a], ids) =>
                        \A k \in 1..Len(ids) :
                            get_column_with_component_mut(archs[a], ids[k]) # 0
              /\ \A req \in Requests :
                    (/\ ~FromIdsPanics(QueryIdsOf(req))
                     /\ has_components(archs[a], QueryIdsOf(req))) =>
                        \A k \in 1..Len(req) :
                            ColumnIndices(archs[a], req)[k] # 0
    /\ fault # "Should have found column after bitset check"
    /\ fault # "called Option::unwrap() on a None value"

\* A bundle of one component was routed to an archetype of two columns, past
\* its first row, in both Worlds, which also hold the archetype without columns
\* of an empty bundle; a typed spawn dropped a bundle with a destructor
C24_Witness ==
    /\ fault = "none"
    /\ call = NoCall
    /\ dtorLog # <<>>
    /\ \E a \in 1..Len(archetypes) : archetypes[a].columns = <<>>
    /\ \E n \in 1..Len(placed) :
          /\ Len(placed[n].bundle) = 1
          /\ placed[n].slots[1][2] >= 1
          /\ Len(archetypes[placed[n].arch].columns) = 2
          /\ Len(twin.archetypes[placed[n].arch].columns) = 2
          /\ has_components(archetypes[placed[n].arch], IdsOf(placed[n].bundle))

\* C26 (archetype schema immutability): no spawn, no spawn_erased and no
\* query, typed or erased, changes the mask, the number of columns, or the
\* identity and layout of a column of an archetype that is in the World;
\* archetypes are never removed or reordered.
C26_SchemaImmutable ==
    [][/\ Len(archetypes') >= Len(archetypes)
       /\ \A a \in 1..Len(archetypes) :
             Schema(archetypes'[a]) = Schema(archetypes[a])]_vars

\* Two archetypes, the first of which received a row after the second was
\* appended; a spawn dropped a bundle with a destructor, a spawn_erased stored
\* a record with one, and a query matched
C26_Witness ==
    /\ fault = "none"
    /\ Len(archetypes) >= 2
    /\ \E i, j \in 1..Len(placed) :
          i < j /\ placed[i].arch = 2 /\ placed[j].arch = 1
    /\ dtorLog # <<>>
    /\ Cardinality(ExternSlots) > Len(dtorLog)
    /\ results # <<>>

\* The entity ids stored in the World, archetype by archetype
AllEntities ==
    Flatten([a \in 1..Len(archetypes) |-> archetypes[a].entities])

\* C28 (entity placement): every entity id returned so far is stored exactly
\* once across the entity lists, the number of stored ids is the number of
\* completed spawns, and every entity list is strictly increasing.
C28_EntityPlacement ==
    /\ Len(AllEntities) = Len(placed)
    /\ \A n \in 1..Len(placed) :
          Cardinality({k \in 1..Len(AllEntities) :
                          AllEntities[k] = placed[n].entity}) = 1
    /\ \A a \in 1..Len(archetypes) :
          \A i, j \in 1..Len(archetypes[a].entities) :
              i < j => archetypes[a].entities[i] < archetypes[a].entities[j]

\* Three spawns, typed and erased, into two archetypes
C28_Witness ==
    /\ fault = "none"
    /\ Len(placed) = 3
    /\ Len(archetypes) = 2
    /\ \E a \in 1..Len(archetypes) : Len(archetypes[a].entities) = 2
    /\ dtorLog # <<>>

\* The archetype a, once one row was appended to old, is new: the entity id,
\* and one element at the end of every column
RowAppended(old, new, id) ==
    /\ new.mask = old.mask
    /\ new.entities = Append(old.entities, id)
    /\ Len(new.columns) = Len(old.columns)
    /\ \A c \in 1..Len(old.columns) :
          LET o == old.columns[c]
              n == new.columns[c]
          IN /\ n.len = o.len + 1
             /\ SubSeq(n.buf, 1, o.len * o.size) = SubSeq(o.buf, 1, o.len * o.size)

\* C29 (spawn frame): a spawn or spawn_erased changes exactly one archetype,
\* the one that receives the row or a newly appended one; every other
\* archetype is unchanged, and in the receiving archetype the stored rows and
\* entity ids are unchanged and exactly one row is appended.
C29_SpawnFrame ==
    [][next_entity' # next_entity =>
          \E r \in 1..Len(archetypes') :
              /\ \A a \in 1..Len(archetypes) :
                    a # r => archetypes'[a] = archetypes[a]
              /\ \/ /\ Len(archetypes') = Len(archetypes)
                    /\ RowAppended(archetypes[r], archetypes'[r], next_entity)
                 \/ /\ Len(archetypes') = Len(archetypes) + 1
                    /\ r = Len(archetypes')
                    /\ archetypes'[r].entities = <<next_entity>>
                    /\ \A c \in 1..Len(archetypes'[r].columns) :
                          archetypes'[r].columns[c].len = 1]_vars

\* C30 (query frame): a call of query_erased or of a typed query leaves the
\* archetype list, with every mask, entity list and column (len, capacity,
\* stored bytes), and the next-entity counter as they were before the call.
C30_QueryFrame ==
    [][(~borrowed /\ borrowed') =>
          /\ archetypes' = archetypes
          /\ next_entity' = next_entity]_vars

\* A query that asked for write access has returned rows of two archetypes
C30_Witness ==
    /\ borrowed /\ fault = "none"
    /\ \E k \in 1..Len(request) : request[k][2] = "Write"
    /\ \E i, j \in 1..Len(results) : results[i].entity # results[j].entity
    /\ Len(archetypes) >= 2

====
